---- MODULE Spec2Model ----
(***************************************************************************)
(* Model of noise_synthea_notes.py: the batch rewrite of the Base64 notes  *)
(* (presentedForm[*].data) of FHIR bundles through an unreliable text      *)
(* generation service, with bounded retry, an append-only log of accepted  *)
(* exchanges, and the Base64 / UTF-8 codec the notes travel in.            *)
(*                                                                         *)
(* Texts are sequences of Unicode code points, byte strings are sequences  *)
(* of 0..255 and tokens (str) are sequences of character codes.            *)
(***************************************************************************)
EXTENDS Integers, Sequences, FiniteSets, TLC

(***************************************************************************)
(* Bounds of the model                                                     *)
(***************************************************************************)
MaxTextLen == 3
MaxTokenLen == 5
\* documents in the input directory, and notes of a batch that decode
MaxDocs == 3
MaxNotes == 2

(***************************************************************************)
(* Base64 (base64.b64encode / base64.b64decode with validate=False)        *)
(***************************************************************************)
\* the exception outcome: a value that no byte string, text or token equals
Error == << -1 >>

BASE64_PAD == 61

\* "ABCDEFGHIJKLMNOPQRSTUVWXYZabcdefghijklmnopqrstuvwxyz0123456789+/"
table_b2a_base64 ==
    [k \in 1..64 |->
        IF k <= 26 THEN 64 + k
        ELSE IF k <= 52 THEN 96 + (k - 26)
        ELSE IF k <= 62 THEN 47 + (k - 52)
        ELSE IF k = 63 THEN 43 ELSE 47]

\* the 6-bit value of a character of the alphabet, 64 for any other character
table_a2b_base64(ch) ==
    IF \E k \in 1..64 : table_b2a_base64[k] = ch
    THEN (CHOOSE k \in 1..64 : table_b2a_base64[k] = ch) - 1
    ELSE 64

IsAscii(s) == \A k \in 1..Len(s) : s[k] < 128

RECURSIVE b2a_base64(_)
b2a_base64(bytes) ==
    IF Len(bytes) = 0 THEN <<>>
    ELSE IF Len(bytes) = 1 THEN
        << table_b2a_base64[(bytes[1] \div 4) + 1],
           table_b2a_base64[((bytes[1] % 4) * 16) + 1],
           BASE64_PAD, BASE64_PAD >>
    ELSE IF Len(bytes) = 2 THEN
        << table_b2a_base64[(bytes[1] \div 4) + 1],
           table_b2a_base64[((bytes[1] % 4) * 16 + (bytes[2] \div 16)) + 1],
           table_b2a_base64[((bytes[2] % 16) * 4) + 1],
           BASE64_PAD >>
    ELSE
        << table_b2a_base64[(bytes[1] \div 4) + 1],
           table_b2a_base64[((bytes[1] % 4) * 16 + (bytes[2] \div 16)) + 1],
           table_b2a_base64[((bytes[2] % 16) * 4 + (bytes[3] \div 64)) + 1],
           table_b2a_base64[(bytes[3] % 64) + 1] >>
        \o b2a_base64(SubSeq(bytes, 4, Len(bytes)))

\* The decoding loop of binascii.a2b_base64 in its lenient mode: st is
\* [quad_pos, leftchar, pads, out, done]; a character outside the alphabet is
\* skipped, and a completed pad sequence ends the parse.
a2b_step(st, ch) ==
    IF st.done THEN st
    ELSE IF ch = BASE64_PAD THEN
        IF st.quad_pos >= 2 /\ st.quad_pos + st.pads + 1 >= 4
        THEN [st EXCEPT !.pads = st.pads + 1, !.done = TRUE]
        ELSE IF st.quad_pos >= 2 THEN [st EXCEPT !.pads = st.pads + 1]
        ELSE st
    ELSE IF table_a2b_base64(ch) >= 64 THEN st
    ELSE LET v == table_a2b_base64(ch) IN
         CASE st.quad_pos = 0 ->
                [st EXCEPT !.quad_pos = 1, !.leftchar = v, !.pads = 0]
           [] st.quad_pos = 1 ->
                [st EXCEPT !.quad_pos = 2, !.leftchar = v % 16, !.pads = 0,
                           !.out = Append(st.out, st.leftchar * 4 + (v \div 16))]
           [] st.quad_pos = 2 ->
                [st EXCEPT !.quad_pos = 3, !.leftchar = v % 4, !.pads = 0,
                           !.out = Append(st.out, st.leftchar * 16 + (v \div 4))]
           [] st.quad_pos = 3 ->
                [st EXCEPT !.quad_pos = 0, !.leftchar = 0, !.pads = 0,
                           !.out = Append(st.out, st.leftchar * 64 + v)]

RECURSIVE a2b_loop(_, _)
a2b_loop(st, s) ==
    IF Len(s) = 0 THEN st ELSE a2b_loop(a2b_step(st, s[1]), Tail(s))

a2b_base64(s) ==
    LET st == a2b_loop([quad_pos |-> 0, leftchar |-> 0, pads |-> 0,
                        out |-> <<>>, done |-> FALSE], s)
    IN IF st.done \/ st.quad_pos = 0 THEN st.out ELSE Error

\* base64.b64decode(s): a str argument must be ASCII, then a2b_base64
b64decode(s) == IF ~IsAscii(s) THEN Error ELSE a2b_base64(s)

b64encode(bytes) == b2a_base64(bytes)

(***************************************************************************)
(* UTF-8 (str.encode("utf-8") / bytes.decode("utf-8"), errors="strict")    *)
(***************************************************************************)
IsSurrogate(cp) == cp >= 55296 /\ cp <= 57343

\* one byte for every code point below 256, as Latin-1 has it
utf8_bytes_latin1(cp) ==
    IF cp < 256 THEN << cp >>
    ELSE IF cp < 2048 THEN << 192 + (cp \div 64), 128 + (cp % 64) >>
    ELSE IF cp < 65536 THEN
        << 224 + (cp \div 4096), 128 + ((cp \div 64) % 64), 128 + (cp % 64) >>
    ELSE << 240 + (cp \div 262144), 128 + ((cp \div 4096) % 64),
            128 + ((cp \div 64) % 64), 128 + (cp % 64) >>

utf8_bytes(cp) ==
    IF cp < 128 THEN << cp >>
    ELSE IF cp < 2048 THEN << 192 + (cp \div 64), 128 + (cp % 64) >>
    ELSE IF cp < 65536 THEN
        << 224 + (cp \div 4096), 128 + ((cp \div 64) % 64), 128 + (cp % 64) >>
    ELSE << 240 + (cp \div 262144), 128 + ((cp \div 4096) % 64),
            128 + ((cp \div 64) % 64), 128 + (cp % 64) >>

RECURSIVE utf8_encode(_)
utf8_encode(text) ==
    IF Len(text) = 0 THEN <<>>
    ELSE IF IsSurrogate(text[1]) THEN Error
    ELSE LET rest == utf8_encode(Tail(text)) IN
         IF rest = Error THEN Error ELSE utf8_bytes(text[1]) \o rest

IsCont(b) == b >= 128 /\ b <= 191

\* the length of the well-formed sequence that starts bytes, 0 if there is none
utf8_seq_len(bytes) ==
    LET b1 == bytes[1]
        n == Len(bytes)
    IN  IF b1 < 128 THEN 1
        ELSE IF b1 >= 194 /\ b1 <= 223 THEN
            IF n >= 2 /\ IsCont(bytes[2]) THEN 2 ELSE 0
        ELSE IF b1 >= 224 /\ b1 <= 239 THEN
            IF /\ n >= 3
               /\ IsCont(bytes[2])
               /\ IsCont(bytes[3])
               /\ (b1 = 224 => bytes[2] >= 160)
               /\ (b1 = 237 => bytes[2] <= 159)
            THEN 3 ELSE 0
        ELSE IF b1 >= 240 /\ b1 <= 244 THEN
            IF /\ n >= 4
               /\ IsCont(bytes[2])
               /\ IsCont(bytes[3])
               /\ IsCont(bytes[4])
               /\ (b1 = 240 => bytes[2] >= 144)
               /\ (b1 = 244 => bytes[2] <= 143)
            THEN 4 ELSE 0
        ELSE 0

utf8_cp(bytes, k) ==
    IF k = 1 THEN bytes[1]
    ELSE IF k = 2 THEN (bytes[1] - 192) * 64 + (bytes[2] - 128)
    ELSE IF k = 3 THEN
        (bytes[1] - 224) * 4096 + (bytes[2] - 128) * 64 + (bytes[3] - 128)
    ELSE (bytes[1] - 240) * 262144 + (bytes[2] - 128) * 4096
         + (bytes[3] - 128) * 64 + (bytes[4] - 128)

RECURSIVE utf8_decode(_)
utf8_decode(bytes) ==
    IF Len(bytes) = 0 THEN <<>>
    ELSE LET k == utf8_seq_len(bytes) IN
         IF k = 0 THEN Error
         ELSE LET rest == utf8_decode(SubSeq(bytes, k + 1, Len(bytes))) IN
              IF rest = Error THEN Error
              ELSE << utf8_cp(bytes, k) >> \o rest

(***************************************************************************)
(* The two codec steps of rewrite_base64_note                              *)
(***************************************************************************)
\* base64.b64decode(b64_text).decode("utf-8"); Error stands for the exception
decode(b64_text) ==
    LET raw == b64decode(b64_text) IN
    IF raw = Error THEN Error ELSE utf8_decode(raw)

\* base64.b64encode(new_text.encode("utf-8")).decode("ascii")
encode(new_text) ==
    LET raw == utf8_encode(new_text) IN
    IF raw = Error THEN Error ELSE b64encode(raw)

(***************************************************************************)
(* Configuration and pure helpers of the pipeline                          *)
(***************************************************************************)
RETRY_DELAYS == << 1, 2, 5, 10 >>

\* DELAY = 0.35 s, in hundredths of a second
DELAY == 35

CLINICIAN_STYLES == << "blunt", "verbose", "dictation", "nursing", "uncertain" >>

\* the f-string of build_prompt: fixed text around the profile and the note
build_prompt(original_text, profile) ==
    << "Rewrite the clinical note below ... Use the style described here: ",
       profile,
       " ... Original note: ** start ** ",
       original_text,
       " ** end ** Return only the rewritten note." >>

\* the schedule with its first two delays swapped
ScheduleSwapped == << 0, 2, 1, 5, 10 >>

\* the schedule without the attempt that needs no wait
ScheduleWithoutFirst == RETRY_DELAYS

\* enumerate([0] + RETRY_DELAYS)
Schedule == << 0 >> \o RETRY_DELAYS

\* str.isspace for the characters of the model
IsSpace(cp) == cp \in {9, 10, 11, 12, 13, 28, 29, 30, 31, 32, 133, 160}

RECURSIVE lstrip(_)
lstrip(t) == IF Len(t) > 0 /\ IsSpace(t[1]) THEN lstrip(Tail(t)) ELSE t

RECURSIVE rstrip(_)
rstrip(t) ==
    IF Len(t) > 0 /\ IsSpace(t[Len(t)]) THEN rstrip(SubSeq(t, 1, Len(t) - 1)) ELSE t

\* response.output_text.strip()
strip(t) == rstrip(lstrip(t))

\* the check `len(rewritten) < 5`
AcceptedFromFive(rewritten) == ~(Len(rewritten) < 5)

\* the negation of `len(rewritten) <= 5`
Accepted(rewritten) == ~(Len(rewritten) <= 5)

\* the block put in front of what LOG_FILE holds
LogWritePrepend(l, p, rewritten) == << [prompt |-> p, output |-> rewritten] >> \o l

\* the block written to a LOG_FILE opened in mode "w"
LogWriteTruncating(l, p, rewritten) == << [prompt |-> p, output |-> rewritten] >>

\* the block whose output is the note the prompt was built from
LogWriteOriginal(l, p, rewritten) == Append(l, [prompt |-> p, output |-> p[4]])

\* one block appended to LOG_FILE, opened in mode "a"
LogWrite(l, p, rewritten) == Append(l, [prompt |-> p, output |-> rewritten])

(***************************************************************************)
(* Documents: JSON objects are records, whose keys are their DOMAIN        *)
(***************************************************************************)
HasKey(obj, key) == key \in DOMAIN obj

\* truth value of a JSON object: a non-empty dict
Truthy(obj) == DOMAIN obj # {}

\* entry.get("resource") is present and truthy
HasResource(ent) == HasKey(ent, "resource") /\ Truthy(ent.resource)

EntryCount(doc) == IF HasKey(doc, "entry") THEN Len(doc.entry) ELSE 0

PfList(doc, e) == doc.entry[e].resource.presentedForm

\* positions <<e, p>> of the presentedForm elements that process_resource visits
Visited(doc) ==
    UNION { IF /\ HasResource(doc.entry[e])
               /\ HasKey(doc.entry[e].resource, "presentedForm")
            THEN { << e, p >> : p \in 1..Len(PfList(doc, e)) }
            ELSE {} : e \in 1..EntryCount(doc) }

\* positions of the attachments: the visited elements that have a data field
Attachments(doc) ==
    { pos \in Visited(doc) : HasKey(PfList(doc, pos[1])[pos[2]], "data") }

DataAt(doc, pos) == PfList(doc, pos[1])[pos[2]].data

\* the element replaced by a new object that holds the token only
SetDataWhole(doc, pos, token) ==
    [doc EXCEPT !.entry[pos[1]].resource.presentedForm[pos[2]] = [data |-> token]]

\* pf["data"] = <token>, in place
SetData(doc, pos, token) ==
    [doc EXCEPT !.entry[pos[1]].resource.presentedForm[pos[2]].data = token]

Decodable(doc) == { pos \in Attachments(doc) : decode(DataAt(doc, pos)) # Error }

(***************************************************************************)
(* Inputs: notes, tokens, service responses and input documents            *)
(***************************************************************************)
\* "Hi" and "Hé"
NoteA == << 72, 105 >>
NoteB == << 72, 233 >>

\* "QQ=": incorrect padding
TokBadPadding == << 81, 81, 61 >>
\* "gQ==": the byte 0x81, which is not UTF-8
TokBadUtf8 == << 103, 81, 61, 61 >>
\* "Q!Q==": "QQ==" with a character outside the alphabet in it
TokStray == << 81, 33, 81, 61, 61 >>

\* "Note 1": one character more than the length check asks for
RespFixed == << 78, 111, 116, 101, 32, 49 >>
\* " Note 1\n"
RespPadded == << 32, 78, 111, 116, 101, 32, 49, 10 >>
\* "abcde"
RespShort == << 97, 98, 99, 100, 101 >>
\* "   \n   "
RespBlank == << 32, 32, 32, 10, 32, 32, 32 >>
RespEmpty == << >>

\* what response.output_text can be
Responses == { RespFixed, RespPadded, RespShort, RespBlank, RespEmpty }

Att(token) == [contentType |-> "text/plain", data |-> token]
AttNoData == [contentType |-> "text/plain", url |-> "Binary/1"]
Report(forms) ==
    [resourceType |-> "DiagnosticReport", status |-> "final", presentedForm |-> forms]
Patient == [resourceType |-> "Patient", gender |-> "female"]
Ent(url, res) == [fullUrl |-> url, resource |-> res]
Bundle(entries) == [resourceType |-> "Bundle", type |-> "collection", entry |-> entries]

\* two valid notes in one resource, and a resource without presentedForm
DocTwoNotes ==
    Bundle(<< Ent("urn:1", Report(<< Att(encode(NoteA)), Att(encode(NoteB)) >>)),
              Ent("urn:2", Patient) >>)
\* a token that does not decode, then a valid note
DocBadThenGood ==
    Bundle(<< Ent("urn:1", Patient),
              Ent("urn:2", Report(<< Att(TokBadPadding), Att(encode(NoteA)) >>)) >>)
\* no entry list
DocNoEntry == [resourceType |-> "Bundle", type |-> "collection"]
\* an entry without resource, an empty resource, an element without data, bad
\* UTF-8, an empty list, and a malformed token that b64decode accepts
DocOddities ==
    Bundle(<< [fullUrl |-> "urn:1"],
              Ent("urn:2", << >>),
              Ent("urn:3", Report(<< AttNoData, Att(TokBadUtf8) >>)),
              Ent("urn:4", Report(<< >>)),
              Ent("urn:5", Report(<< Att(TokStray) >>)) >>)

Docs == { DocTwoNotes, DocBadThenGood, DocNoEntry, DocOddities }

RECURSIVE SeqsUpTo(_, _)
SeqsUpTo(S, n) ==
    IF n = 0 THEN { << >> }
    ELSE LET shorter == SeqsUpTo(S, n - 1) IN
         shorter \cup { Append(q, x) : q \in { r \in shorter : Len(r) = n - 1 }, x \in S }

RECURSIVE NotesIn(_)
NotesIn(batch) ==
    IF Len(batch) = 0 THEN 0
    ELSE Cardinality(Decodable(batch[1])) + NotesIn(Tail(batch))

\* the directories the run may be given, as in_dir.glob("*.json") lists them:
\* up to MaxDocs different documents, of which up to MaxNotes notes decode
Batches ==
    { b \in SeqsUpTo(Docs, MaxDocs) :
        /\ \A j, k \in 1..Len(b) : b[j] = b[k] => j = k
        /\ NotesIn(b) <= MaxNotes }

\* a record the log file may hold from an earlier run
PriorRecord == [prompt |-> build_prompt(NoteA, CLINICIAN_STYLES[1]), output |-> RespFixed]

(***************************************************************************)
(* State                                                                   *)
(***************************************************************************)
VARIABLES
    pc,               \* the statement the run is at
    files,            \* the documents of in_dir, in glob order, named 1..Len(files)
    outDir,           \* out_dir: file name |-> the document written under it
    log,              \* the blocks of LOG_FILE
    log0,             \* the blocks LOG_FILE held when the run started
    fileIdx,          \* main: the position of `file` in the glob
    data,             \* process_file: the loaded document
    rewritten_count,  \* process_file: rewritten_count
    entryIdx,         \* process_file: the position of `entry` in data["entry"]
    count,            \* process_resource: count
    pfIdx,            \* process_resource: the position of `pf` in pf_list
    decoded,          \* rewrite_base64_note: decoded
    style,            \* rewrite_base64_note: style
    prompt,           \* call_openai: prompt
    i,                \* call_openai: the position in [0] + RETRY_DELAYS, from 1
    outcome,          \* what the service call just made did: "raise" or "text"
    response,         \* response.output_text of the service call just made
    attempts,         \* service calls made by the current call of call_openai
    waits,            \* time.sleep calls of the current call of call_openai
    pauses,           \* the time main has slept in time.sleep(DELAY)
    warnings,         \* warnings printed by rewrite_base64_note
    returned,         \* calls of call_openai that returned a text
    calls,            \* calls of call_openai made by rewrite_base64_note
    replaced,         \* attachments of the current document given a generated text
    summary,          \* the "<name>: rewritten <n> notes" lines printed
    genFixed,         \* the service has answered RespFixed to every call so far
    cpc, cText, cToken, cResult   \* the codec on its own

pipeVars ==
    << pc, files, outDir, log, log0, fileIdx, data, rewritten_count, entryIdx,
       count, pfIdx, decoded, style, prompt, i, outcome, response, attempts,
       waits, pauses, warnings, returned, calls, replaced, summary, genFixed >>
codecVars == << cpc, cText, cToken, cResult >>
vars == << pipeVars, codecVars >>

NoDoc == << >>
NoText == << >>
NoPrompt == << >>

CodecIdle == cpc = "off" /\ cText = NoText /\ cToken = NoText /\ cResult = NoText

\* the locals of process_file and below, before a document is loaded
NoLocals ==
    /\ data = NoDoc
    /\ rewritten_count = 0
    /\ entryIdx = 0
    /\ count = 0
    /\ pfIdx = 0
    /\ decoded = NoText
    /\ style = ""
    /\ prompt = NoPrompt
    /\ i = 0
    /\ outcome = "none"
    /\ response = NoText
    /\ attempts = 0
    /\ waits = << >>
    /\ replaced = 0

Init ==
    /\ pc = "main"
    /\ files \in Batches
    /\ outDir = << >>
    /\ log0 \in { << >>, << PriorRecord >> }
    /\ log = log0
    /\ fileIdx = 0
    /\ NoLocals
    /\ pauses = 0
    /\ warnings = 0
    /\ returned = 0
    /\ calls = 0
    /\ summary = << >>
    /\ genFixed = TRUE
    /\ CodecIdle

(***************************************************************************)
(* main and process_file                                                   *)
(***************************************************************************)
callLocals == << decoded, style, prompt, i, outcome, response, attempts, waits >>
runGhosts == << pauses, warnings, returned, calls, summary, genFixed >>

\* for file in in_dir.glob("*.json"): process_file loads the next document
LoadFile ==
    /\ pc = "main"
    /\ fileIdx < Len(files)
    /\ fileIdx' = fileIdx + 1
    /\ data' = files[fileIdx + 1]
    /\ rewritten_count' = 0
    /\ replaced' = 0
    /\ entryIdx' = 1
    /\ count' = 0
    /\ pfIdx' = 0
    /\ decoded' = NoText
    /\ style' = ""
    /\ prompt' = NoPrompt
    /\ i' = 0
    /\ outcome' = "none"
    /\ response' = NoText
    /\ attempts' = 0
    /\ waits' = << >>
    /\ pc' = "entry"
    /\ UNCHANGED << files, outDir, log, log0, runGhosts, codecVars >>

\* the glob is exhausted: main returns
Finish ==
    /\ pc = "main"
    /\ fileIdx = Len(files)
    /\ pc' = "done"
    /\ UNCHANGED << files, outDir, log, log0, fileIdx, data, rewritten_count,
                    entryIdx, count, pfIdx, callLocals, replaced, runGhosts,
                    codecVars >>

\* `resource` is missing or falsy: the entry is passed over
SkipEntry ==
    /\ pc = "entry"
    /\ entryIdx <= EntryCount(data)
    /\ ~HasResource(data.entry[entryIdx])
    /\ entryIdx' = entryIdx + 1
    /\ UNCHANGED << pc, files, outDir, log, log0, fileIdx, data, rewritten_count,
                    count, pfIdx, callLocals, replaced, runGhosts, codecVars >>

\* process_resource returns 0 for a resource without presentedForm
ResourceWithoutForms ==
    /\ pc = "entry"
    /\ entryIdx <= EntryCount(data)
    /\ HasResource(data.entry[entryIdx])
    /\ ~HasKey(data.entry[entryIdx].resource, "presentedForm")
    /\ rewritten_count' = rewritten_count + 0
    /\ entryIdx' = entryIdx + 1
    /\ UNCHANGED << pc, files, outDir, log, log0, fileIdx, data, count, pfIdx,
                    callLocals, replaced, runGhosts, codecVars >>

\* process_resource starts on the presentedForm list of the entry's resource
EnterResource ==
    /\ pc = "entry"
    /\ entryIdx <= EntryCount(data)
    /\ HasResource(data.entry[entryIdx])
    /\ HasKey(data.entry[entryIdx].resource, "presentedForm")
    /\ count' = 0
    /\ pfIdx' = 1
    /\ pc' = "pf"
    /\ UNCHANGED << files, outDir, log, log0, fileIdx, data, rewritten_count,
                    entryIdx, callLocals, replaced, runGhosts, codecVars >>

\* a process_file that writes the document only when notes were counted
WriteOutputIfRewritten ==
    /\ pc = "entry"
    /\ entryIdx > EntryCount(data)
    /\ outDir' = IF rewritten_count > 0
                 THEN [name \in DOMAIN outDir \cup {fileIdx} |->
                         IF name = fileIdx THEN data ELSE outDir[name]]
                 ELSE outDir
    /\ summary' = Append(summary, [name |-> fileIdx, count |-> rewritten_count])
    /\ pc' = "pace"
    /\ UNCHANGED << files, log, log0, fileIdx, data, rewritten_count, entryIdx,
                    count, pfIdx, callLocals, replaced, pauses, warnings,
                    returned, calls, genFixed, codecVars >>

\* json.dump of the document under the input's name, and the summary line
WriteOutput ==
    /\ pc = "entry"
    /\ entryIdx > EntryCount(data)
    /\ outDir' = [name \in DOMAIN outDir \cup {fileIdx} |->
                    IF name = fileIdx THEN data ELSE outDir[name]]
    /\ summary' = Append(summary, [name |-> fileIdx, count |-> rewritten_count])
    /\ pc' = "pace"
    /\ UNCHANGED << files, log, log0, fileIdx, data, rewritten_count, entryIdx,
                    count, pfIdx, callLocals, replaced, pauses, warnings,
                    returned, calls, genFixed, codecVars >>

\* a pause that is made only after a document in which notes were counted
PaceIfRewritten ==
    /\ pc = "pace"
    /\ pauses' = IF rewritten_count > 0 THEN pauses + DELAY ELSE pauses
    /\ pc' = "main"
    /\ UNCHANGED << files, outDir, log, log0, fileIdx, data, rewritten_count,
                    entryIdx, count, pfIdx, callLocals, replaced, warnings,
                    returned, calls, summary, genFixed, codecVars >>

\* time.sleep(DELAY) after process_file
Pace ==
    /\ pc = "pace"
    /\ pauses' = pauses + DELAY
    /\ pc' = "main"
    /\ UNCHANGED << files, outDir, log, log0, fileIdx, data, rewritten_count,
                    entryIdx, count, pfIdx, callLocals, replaced, warnings,
                    returned, calls, summary, genFixed, codecVars >>

(***************************************************************************)
(* process_resource and rewrite_base64_note                                *)
(***************************************************************************)
\* the first element of the list, whatever element the loop is at
PosFirstForm == << entryIdx, 1 >>

\* every token an attachment can hold during a run: the tokens of the input
\* documents and the encodings of the accepted texts
RunTokens ==
    UNION { { DataAt(d, pos) : pos \in Attachments(d) } : d \in Docs }
    \cup { encode(strip(r)) : r \in { q \in Responses : Accepted(strip(q)) } }

\* decode, computed once for each token of a run
decoded_of == [b64_text \in RunTokens |-> decode(b64_text)]

\* the attachment process_resource is at
Pos == << entryIdx, pfIdx >>

AtForm ==
    /\ pc = "pf"
    /\ pfIdx <= Len(PfList(data, entryIdx))

\* the loop over pf_list is over: `return count`, added to rewritten_count
ReturnCount ==
    /\ pc = "pf"
    /\ pfIdx > Len(PfList(data, entryIdx))
    /\ rewritten_count' = rewritten_count + count
    /\ count' = 0
    /\ pfIdx' = 0
    /\ entryIdx' = entryIdx + 1
    /\ pc' = "entry"
    /\ UNCHANGED << files, outDir, log, log0, fileIdx, data, callLocals, replaced,
                    runGhosts, codecVars >>

\* an element without "data" is passed over
SkipForm ==
    /\ AtForm
    /\ ~HasKey(PfList(data, entryIdx)[pfIdx], "data")
    /\ pfIdx' = pfIdx + 1
    /\ UNCHANGED << pc, files, outDir, log, log0, fileIdx, data, rewritten_count,
                    entryIdx, count, callLocals, replaced, runGhosts, codecVars >>

\* an except branch that hands back an empty token
OnDecodeErrorEmpty(b64_text) == << >>

\* the except branch of rewrite_base64_note: `return b64_text`
OnDecodeError(b64_text) == b64_text

\* the token does not decode: a warning, the token is handed back and assigned
\* to pf["data"], and process_resource counts the attachment
DecodeFails ==
    /\ AtForm
    /\ HasKey(PfList(data, entryIdx)[pfIdx], "data")
    /\ decoded_of[DataAt(data, Pos)] = Error
    /\ warnings' = warnings + 1
    /\ data' = SetData(data, Pos, OnDecodeError(DataAt(data, Pos)))
    /\ count' = count + 1
    /\ pfIdx' = pfIdx + 1
    /\ UNCHANGED << pc, files, outDir, log, log0, fileIdx, rewritten_count,
                    entryIdx, callLocals, replaced, pauses, returned, calls,
                    summary, genFixed, codecVars >>

\* the token decodes: a style is drawn, the prompt built and call_openai entered
DecodeOk ==
    /\ AtForm
    /\ HasKey(PfList(data, entryIdx)[pfIdx], "data")
    /\ decoded_of[DataAt(data, Pos)] # Error
    /\ decoded' = decoded_of[DataAt(data, Pos)]
    /\ \E k \in 1..Len(CLINICIAN_STYLES) : style' = CLINICIAN_STYLES[k]
    /\ prompt' = build_prompt(decoded', style')
    /\ i' = 1
    /\ outcome' = "none"
    /\ response' = NoText
    /\ attempts' = 0
    /\ waits' = << >>
    /\ calls' = calls + 1
    /\ pc' = "loop"
    /\ UNCHANGED << files, outDir, log, log0, fileIdx, data, rewritten_count,
                    entryIdx, count, pfIdx, replaced, pauses, warnings, returned,
                    summary, genFixed, codecVars >>

(***************************************************************************)
(* call_openai                                                             *)
(***************************************************************************)
\* a loop head that draws the style and builds the prompt again
LoopHeadRedraw ==
    /\ pc = "loop"
    /\ waits' = IF Schedule[i] # 0 THEN Append(waits, Schedule[i]) ELSE waits
    /\ outcome' = "none"
    /\ response' = NoText
    /\ \E k \in 1..Len(CLINICIAN_STYLES) : style' = CLINICIAN_STYLES[k]
    /\ prompt' = build_prompt(decoded, style')
    /\ pc' = "try"
    /\ UNCHANGED << files, outDir, log, log0, fileIdx, data, rewritten_count,
                    entryIdx, count, pfIdx, decoded, i, attempts,
                    replaced, runGhosts, codecVars >>

\* the head of the for loop: `if delay: time.sleep(delay)`
LoopHead ==
    /\ pc = "loop"
    /\ waits' = IF Schedule[i] # 0 THEN Append(waits, Schedule[i]) ELSE waits
    /\ outcome' = "none"
    /\ response' = NoText
    /\ pc' = "try"
    /\ UNCHANGED << files, outDir, log, log0, fileIdx, data, rewritten_count,
                    entryIdx, count, pfIdx, decoded, style, prompt, i, attempts,
                    replaced, runGhosts, codecVars >>

\* a caller that catches the error and calls call_openai again
PropagateRetried ==
    /\ pc' = "loop"
    /\ i' = 1
    /\ calls' = calls + 1
    /\ outDir' = outDir

\* a process_file that writes its document on the way out of the error
PropagateAfterWrite ==
    /\ pc' = "error"
    /\ i' = i
    /\ calls' = calls
    /\ outDir' = [name \in DOMAIN outDir \cup {fileIdx} |->
                    IF name = fileIdx THEN data ELSE outDir[name]]

\* RuntimeError leaves call_openai and no caller catches it: the run ends
Propagate ==
    /\ pc' = "error"
    /\ i' = i
    /\ calls' = calls
    /\ outDir' = outDir

\* an except branch that keeps retrying with the last delay of the schedule
RetryWithoutEnd ==
    /\ i' = IF i < Len(Schedule) THEN i + 1 ELSE i
    /\ pc' = "loop"
    /\ calls' = calls
    /\ outDir' = outDir

\* the except branch: the next delay of the schedule, or RuntimeError after it
Retry ==
    IF i < Len(Schedule)
    THEN /\ i' = i + 1
         /\ pc' = "loop"
         /\ calls' = calls
         /\ outDir' = outDir
    ELSE Propagate

\* client.responses.create raises
TryRaises ==
    /\ pc = "try"
    /\ attempts' = attempts + 1
    /\ outcome' = "raise"
    /\ response' = NoText
    /\ genFixed' = FALSE
    /\ Retry
    /\ UNCHANGED << files, log, log0, fileIdx, data, rewritten_count, entryIdx,
                    count, pfIdx, decoded, style, prompt, waits, replaced, pauses,
                    warnings, returned, summary, codecVars >>

\* the service answers a text that the length check turns into ValueError
TryInvalid ==
    /\ pc = "try"
    /\ \E r \in Responses :
        /\ ~Accepted(strip(r))
        /\ response' = r
    /\ attempts' = attempts + 1
    /\ outcome' = "text"
    /\ genFixed' = FALSE
    /\ Retry
    /\ UNCHANGED << files, log, log0, fileIdx, data, rewritten_count, entryIdx,
                    count, pfIdx, decoded, style, prompt, waits, replaced, pauses,
                    warnings, returned, summary, codecVars >>

\* the service answers a text that passes: it is logged, returned, encoded and
\* assigned to pf["data"], and process_resource counts the attachment; the
\* frames of call_openai and rewrite_base64_note are gone
TryAccepted ==
    /\ pc = "try"
    /\ \E r \in Responses :
        /\ Accepted(strip(r))
        /\ response' = r
        /\ genFixed' = (genFixed /\ r = RespFixed)
    /\ outcome' = "text"
    /\ log' = LogWrite(log, prompt, strip(response'))
    /\ returned' = returned + 1
    /\ data' = SetData(data, Pos, encode(strip(response')))
    /\ replaced' = replaced + 1
    /\ count' = count + 1
    /\ pfIdx' = pfIdx + 1
    /\ decoded' = NoText
    /\ style' = ""
    /\ prompt' = NoPrompt
    /\ i' = 0
    /\ attempts' = 0
    /\ waits' = << >>
    /\ pc' = "pf"
    /\ UNCHANGED << files, outDir, log0, fileIdx, rewritten_count, entryIdx,
                    pauses, warnings, calls, summary, codecVars >>

Next ==
    \/ LoadFile
    \/ Finish
    \/ SkipEntry
    \/ ResourceWithoutForms
    \/ EnterResource
    \/ WriteOutput
    \/ Pace
    \/ ReturnCount
    \/ SkipForm
    \/ DecodeFails
    \/ DecodeOk
    \/ LoopHead
    \/ TryRaises
    \/ TryInvalid
    \/ TryAccepted

Spec == Init /\ [][Next]_vars

\* the run goes on as long as a statement is left to execute: the service call
\* and the sleeps return
FairSpec == Spec /\ WF_vars(Next)

(***************************************************************************)
(* The codec on its own: encode a text and decode it back, decode a token  *)
(***************************************************************************)
\* "A", "\n", "é", "€" and an emoji: UTF-8 sequences of one to four bytes
CodePoints == { 65, 10, 233, 8364, 128512 }

\* "Q", "g", "=", "!" and "é"
TokenChars == { 81, 103, 61, 33, 233 }

\* the run is not under way
PipeIdle ==
    /\ pc = "off"
    /\ files = << >>
    /\ outDir = << >>
    /\ log = << >>
    /\ log0 = << >>
    /\ fileIdx = 0
    /\ NoLocals
    /\ pauses = 0
    /\ warnings = 0
    /\ returned = 0
    /\ calls = 0
    /\ summary = << >>
    /\ genFixed = TRUE

CodecInit ==
    /\ PipeIdle
    /\ cResult = NoText
    /\ \/ /\ cpc = "text"
          /\ cText \in SeqsUpTo(CodePoints, MaxTextLen)
          /\ cToken = NoText
       \/ /\ cpc = "token"
          /\ cText = NoText
          /\ cToken \in SeqsUpTo(TokenChars, MaxTokenLen)

\* base64.b64encode(new_text.encode("utf-8")).decode("ascii")
CodecEncode ==
    /\ cpc = "text"
    /\ cToken' = encode(cText)
    /\ cpc' = "encoded"
    /\ UNCHANGED << pipeVars, cText, cResult >>

\* base64.b64decode(b64_text).decode("utf-8") of the token just encoded
CodecDecodeBack ==
    /\ cpc = "encoded"
    /\ cResult' = decode(cToken)
    /\ cpc' = "roundtrip"
    /\ UNCHANGED << pipeVars, cText, cToken >>

\* base64.b64decode(b64_text).decode("utf-8") of a token of the input
CodecDecode ==
    /\ cpc = "token"
    /\ cResult' = decode(cToken)
    /\ cpc' = "decoded"
    /\ UNCHANGED << pipeVars, cText, cToken >>

CodecNext == CodecEncode \/ CodecDecodeBack \/ CodecDecode

CodecSpec == CodecInit /\ [][CodecNext]_vars

(***************************************************************************)
(* Helpers of the properties                                               *)
(***************************************************************************)
InCall == pc \in { "loop", "try" }

\* the document with the data field of every presentedForm element blanked
BlankForm(pf) == IF HasKey(pf, "data") THEN [pf EXCEPT !.data = << >>] ELSE pf

BlankResource(res) ==
    IF HasKey(res, "presentedForm")
    THEN [res EXCEPT !.presentedForm =
            [p \in 1..Len(res.presentedForm) |-> BlankForm(res.presentedForm[p])]]
    ELSE res

BlankEntry(ent) ==
    IF HasKey(ent, "resource") /\ Truthy(ent.resource)
    THEN [ent EXCEPT !.resource = BlankResource(ent.resource)]
    ELSE ent

Blank(doc) ==
    IF HasKey(doc, "entry")
    THEN [doc EXCEPT !.entry = [e \in 1..Len(doc.entry) |-> BlankEntry(doc.entry[e])]]
    ELSE doc

\* RFC 4648: quads of alphabet characters, the last one padded with one or two "="
WellFormed(token) ==
    /\ Len(token) % 4 = 0
    /\ \A k \in 1..Len(token) :
        \/ table_a2b_base64(token[k]) < 64
        \/ /\ token[k] = BASE64_PAD
           /\ k >= Len(token) - 1
           /\ token[Len(token)] = BASE64_PAD

\* the attachments of doc whose token is a well-formed encoding of a text
ValidlyEncoded(doc) ==
    { pos \in Attachments(doc) :
        WellFormed(DataAt(doc, pos)) /\ decode(DataAt(doc, pos)) # Error }

(***************************************************************************)
(* C1: when every attempt of a call of call_openai fails, the call makes   *)
(* exactly Len(RETRY_DELAYS) + 1 service attempts and then ends the run    *)
(* with RuntimeError: while the call is under way the attempts made are    *)
(* the i - 1 failed ones and at most Len(RETRY_DELAYS), the failure is     *)
(* signalled with exactly Len(RETRY_DELAYS) + 1 attempts made, and the     *)
(* attachment has then been given no text.                                 *)
(***************************************************************************)
C1_RetryTermination ==
    /\ InCall => attempts = i - 1 /\ attempts <= Len(RETRY_DELAYS)
    /\ pc = "error" =>
        /\ attempts = Len(RETRY_DELAYS) + 1
        /\ outcome \in { "raise", "text" }
        /\ (outcome = "text" => ~(Len(strip(response)) > 5))
        /\ DataAt(data, Pos) = DataAt(files[fileIdx], Pos)

C1_Witness ==
    /\ pc = "error"
    /\ attempts = 5
    /\ outcome = "text"
    /\ response = RespShort

(***************************************************************************)
(* C2: the count that process_file reports for a document equals the       *)
(* number of its attachments whose data was replaced by a generated text   *)
(* (an attachment whose token does not decode is not counted).             *)
(***************************************************************************)
C2_CountOnlyRewritten ==
    pc = "pace" =>
        /\ rewritten_count = replaced
        /\ summary[Len(summary)].count = replaced

(***************************************************************************)
(* C3: for an attachment whose token does not decode, the step of          *)
(* rewrite_base64_note leaves the document as it is (the token handed back *)
(* is the input token), prints exactly one warning, makes no service call, *)
(* writes no log block and moves on to the next element; the service is    *)
(* only ever called for a token that decodes.                              *)
(***************************************************************************)
C3_DecodeFailureStep ==
    (/\ AtForm
     /\ HasKey(PfList(data, entryIdx)[pfIdx], "data")
     /\ decode(DataAt(data, Pos)) = Error)
    => /\ data' = data
       /\ DataAt(data', Pos) = DataAt(files[fileIdx], Pos)
       /\ warnings' = warnings + 1
       /\ attempts' = attempts
       /\ outcome' = outcome
       /\ log' = log
       /\ returned' = returned
       /\ pc' = "pf"
       /\ pfIdx' = pfIdx + 1

C3_NonMutationOnDecodeFailure ==
    /\ [](InCall => decode(DataAt(files[fileIdx], Pos)) # Error)
    /\ [][C3_DecodeFailureStep]_vars

C3_Witness ==
    /\ pc = "pf"
    /\ warnings = 1
    /\ pfIdx = 2
    /\ decode(DataAt(files[fileIdx], << entryIdx, 1 >>)) = Error
    /\ DataAt(data, << entryIdx, 1 >>) = TokBadPadding

(***************************************************************************)
(* C4: the number of blocks the run has appended to the log equals the     *)
(* number of calls of call_openai that returned a text (failed attempts    *)
(* and skipped attachments append nothing), and when a call has just       *)
(* returned, the last block holds the accepted response.                   *)
(***************************************************************************)
C4_AuditAccounting ==
    /\ Len(log) = Len(log0) + returned
    /\ (pc = "pf" /\ outcome = "text") =>
        /\ returned >= 1
        /\ log[Len(log)].output = strip(response)

C4_Witness ==
    /\ pc = "pf"
    /\ outcome = "text"
    /\ response = RespPadded
    /\ returned = 2
    /\ warnings >= 1
    /\ log0 # << >>

(***************************************************************************)
(* C5: a service attempt whose stripped text has at most 5 characters      *)
(* (the empty text included) has the very effect of an attempt that        *)
(* raised: nothing is logged, returned or written to the document, one     *)
(* attempt is consumed and the schedule moves to its next delay, or the    *)
(* run fails after the last one; a call returns only with a stripped text  *)
(* of more than 5 characters, which is the text encoded into the data.     *)
(***************************************************************************)
C5_FailedAttemptStep ==
    (/\ pc = "try"
     /\ \/ outcome' = "raise"
        \/ outcome' = "text" /\ Len(strip(response')) <= 5)
    => /\ log' = log
       /\ data' = data
       /\ returned' = returned
       /\ replaced' = replaced
       /\ count' = count
       /\ attempts' = attempts + 1
       /\ waits' = waits
       /\ IF i <= Len(RETRY_DELAYS)
          THEN pc' = "loop" /\ i' = i + 1
          ELSE pc' = "error"

C5_AcceptedStep ==
    (pc = "try" /\ pc' = "pf")
    => /\ outcome' = "text"
       /\ Len(strip(response')) > 5
       /\ DataAt(data', Pos) = encode(strip(response'))
       /\ log'[Len(log')].output = strip(response')

C5_OutputValidation ==
    /\ [][C5_FailedAttemptStep]_vars
    /\ [][C5_AcceptedStep]_vars

C5_Witness ==
    /\ pc = "loop"
    /\ i = 3
    /\ outcome = "text"
    /\ response = RespBlank

(***************************************************************************)
(* C6: when the run has ended with the error of call_openai while          *)
(* document fileIdx was being processed, the output directory holds the    *)
(* documents before fileIdx and no other; the step that raises the error   *)
(* leaves the outputs written so far as they are.                          *)
(***************************************************************************)
C6_FailFastAbort ==
    /\ [](pc = "error" => DOMAIN outDir = 1..(fileIdx - 1))
    /\ [][pc' = "error" => outDir' = outDir]_vars

C6_Witness ==
    /\ pc = "error"
    /\ Len(files) = 3
    /\ fileIdx = 2
    /\ DOMAIN outDir = { 1 }
    /\ outDir[1] # files[1]

(***************************************************************************)
(* C7: every output document written equals its input document in          *)
(* everything but the data fields of presentedForm elements: same entries  *)
(* and elements in the same order and number; a resource without           *)
(* presentedForm is as in the input.                                       *)
(***************************************************************************)
C7_StructuralPreservation ==
    \A name \in DOMAIN outDir :
        /\ Blank(outDir[name]) = Blank(files[name])
        /\ HasKey(outDir[name], "entry") <=> HasKey(files[name], "entry")
        /\ \A e \in 1..EntryCount(files[name]) :
            (/\ HasResource(files[name].entry[e])
             /\ ~HasKey(files[name].entry[e].resource, "presentedForm"))
            => outDir[name].entry[e] = files[name].entry[e]

C7_Witness ==
    /\ 1 \in DOMAIN outDir
    /\ files[1] = DocTwoNotes
    /\ DataAt(outDir[1], << 1, 1 >>) # DataAt(files[1], << 1, 1 >>)
    /\ DataAt(outDir[1], << 1, 2 >>) # DataAt(files[1], << 1, 2 >>)

(***************************************************************************)
(* C8: decode signals an error for every token that is not a well-formed   *)
(* encoding, rather than dropping or truncating part of it.                *)
(***************************************************************************)
C8_DecodeRejectsMalformed ==
    (cpc = "decoded" /\ ~WellFormed(cToken)) => cResult = Error

(***************************************************************************)
(* C9: while the service has answered RespFixed to every call, a document  *)
(* just written has data = encode(RespFixed), decoding to RespFixed, in    *)
(* every attachment that was validly encoded, the count reported for it is *)
(* the number of those attachments, and its resources without              *)
(* presentedForm are as in the input.                                      *)
(***************************************************************************)
C9_EndToEndRewrite ==
    (pc = "pace" /\ genFixed) =>
        /\ \A pos \in ValidlyEncoded(files[fileIdx]) :
            /\ DataAt(outDir[fileIdx], pos) = encode(RespFixed)
            /\ decode(DataAt(outDir[fileIdx], pos)) = RespFixed
        /\ summary[Len(summary)].count = Cardinality(ValidlyEncoded(files[fileIdx]))
        /\ \A e \in 1..EntryCount(files[fileIdx]) :
            (/\ HasResource(files[fileIdx].entry[e])
             /\ ~HasKey(files[fileIdx].entry[e].resource, "presentedForm"))
            => outDir[fileIdx].entry[e] = files[fileIdx].entry[e]

(***************************************************************************)
(* C10: decoding the encoding of a text gives the text back.               *)
(***************************************************************************)
C10_CodecRoundTrip ==
    cpc = "roundtrip" => cResult = cText

C10_Witness ==
    /\ cpc = "roundtrip"
    /\ cText = << 128512, 233, 8364 >>
    /\ cResult = cText

(***************************************************************************)
(* C11: every step leaves the log an extension of what it was (blocks are  *)
(* appended, never changed, removed or truncated), and what the log held   *)
(* when the run started is a prefix of it at every point of the run, the   *)
(* state after a terminal failure included.                                *)
(***************************************************************************)
IsPrefix(a, b) == Len(a) <= Len(b) /\ SubSeq(b, 1, Len(a)) = a

C11_AppendOnlyLog ==
    /\ [](IsPrefix(log0, log))
    /\ [][IsPrefix(log, log')]_vars

C11_Witness ==
    /\ pc = "error"
    /\ log0 = << PriorRecord >>
    /\ Len(log) = 2
    /\ log[1] = PriorRecord

(***************************************************************************)
(* C12: the first attempt of a call is made with no wait, and attempt i is *)
(* made after exactly the first i - 1 delays of RETRY_DELAYS, in order;    *)
(* a wait is made only between a failed attempt and the next attempt, so   *)
(* none follows the last failed attempt or an accepted response.           *)
(***************************************************************************)
C12_WaitStep ==
    waits' # waits =>
        \/ waits' = << >>
        \/ /\ pc = "loop"
           /\ pc' = "try"
           /\ i >= 2
           /\ attempts = i - 1
           /\ outcome \in { "raise", "text" }
           /\ waits' = Append(waits, RETRY_DELAYS[i - 1])

C12_BackoffOrdering ==
    /\ [](pc = "try" => waits = SubSeq(RETRY_DELAYS, 1, i - 1))
    /\ [](pc = "loop" => waits = SubSeq(RETRY_DELAYS, 1, i - 2))
    /\ [](pc = "error" => waits = RETRY_DELAYS)
    /\ [](pc \in { "entry", "pf", "pace", "main", "done" } => waits = << >>)
    /\ [][C12_WaitStep]_vars

C12_Witness ==
    /\ pc = "try"
    /\ i = 5
    /\ attempts = 4
    /\ waits = << 1, 2, 5, 10 >>

(***************************************************************************)
(* C13: call_openai is called exactly once for every attachment whose      *)
(* token decodes (the calls made are those that returned a text plus the   *)
(* one under way or failed), nothing runs after the terminal failure, and  *)
(* the service attempts made for one attachment never exceed               *)
(* Len(RETRY_DELAYS) + 1.                                                  *)
(***************************************************************************)
C13_CallersNeverRetry ==
    /\ [](calls = returned + (IF InCall \/ pc = "error" THEN 1 ELSE 0))
    /\ [](pc \in { "pace", "main", "done" } =>
            calls = NotesIn(SubSeq(files, 1, fileIdx)))
    /\ [](attempts <= Len(RETRY_DELAYS) + 1)
    /\ [][pc # "error"]_vars

C13_Witness ==
    /\ pc = "done"
    /\ calls = 2
    /\ ~genFixed
    /\ files[1] = DocTwoNotes

(***************************************************************************)
(* C14: processing is sequential and in traversal order.  While document   *)
(* fileIdx is processed, exactly the documents before it are written, and  *)
(* its attachments before the place of the traversal are handled (given a  *)
(* generated text, or left as they are when the token does not decode)     *)
(* while those from that place on still hold their input token; documents  *)
(* are loaded in glob order, each after the one before was written; the    *)
(* blocks the run has appended to the log, looked at whenever a call has   *)
(* just returned, follow the notes of the batch in document, entry and     *)
(* presentedForm order; at most one call of call_openai is under way, and  *)
(* a backoff wait changes nothing else.                                    *)
(***************************************************************************)
Processing == pc \in { "entry", "pf", "loop", "try", "error" }

Before(pos, cur) == pos[1] < cur[1] \/ (pos[1] = cur[1] /\ pos[2] < cur[2])

RECURSIVE NotesOfForms(_)
NotesOfForms(forms) ==
    IF Len(forms) = 0 THEN << >>
    ELSE (IF HasKey(forms[1], "data") /\ decode(forms[1].data) # Error
          THEN << decode(forms[1].data) >> ELSE << >>)
         \o NotesOfForms(Tail(forms))

RECURSIVE NotesOfEntries(_)
NotesOfEntries(entries) ==
    IF Len(entries) = 0 THEN << >>
    ELSE (IF HasResource(entries[1]) /\ HasKey(entries[1].resource, "presentedForm")
          THEN NotesOfForms(entries[1].resource.presentedForm) ELSE << >>)
         \o NotesOfEntries(Tail(entries))

\* the notes of the batch that decode, in traversal order
RECURSIVE NotesOfDocs(_)
NotesOfDocs(batch) ==
    IF Len(batch) = 0 THEN << >>
    ELSE (IF HasKey(batch[1], "entry") THEN NotesOfEntries(batch[1].entry) ELSE << >>)
         \o NotesOfDocs(Tail(batch))

C14_TraversalOrder ==
    /\ Processing => DOMAIN outDir = 1..(fileIdx - 1)
    /\ pc \in { "pace", "main", "done" } => DOMAIN outDir = 1..fileIdx
    /\ Processing =>
        \A pos \in Attachments(files[fileIdx]) :
            IF DataAt(data, pos) # DataAt(files[fileIdx], pos)
            THEN Before(pos, << entryIdx, pfIdx >>)
            ELSE \/ ~Before(pos, << entryIdx, pfIdx >>)
                 \/ decode(DataAt(files[fileIdx], pos)) = Error
    /\ (pc = "pf" /\ outcome = "text") =>
        LET notes == NotesOfDocs(files) IN
        /\ Len(log) - Len(log0) <= Len(notes)
        /\ \A k \in 1..(Len(log) - Len(log0)) :
            log[Len(log0) + k].prompt[4] = notes[k]
    /\ calls - returned \in { 0, 1 }

C14_Step ==
    /\ fileIdx' # fileIdx =>
        /\ fileIdx' = fileIdx + 1
        /\ DOMAIN outDir = 1..fileIdx
        /\ pc = "main"
    /\ (pc = "loop" /\ pc' = "try") =>
        /\ data' = data
        /\ outDir' = outDir
        /\ log' = log
        /\ << fileIdx', entryIdx', pfIdx' >> = << fileIdx, entryIdx, pfIdx >>
        /\ << attempts', calls', returned' >> = << attempts, calls, returned >>

C14_SequentialProcessing ==
    /\ []C14_TraversalOrder
    /\ [][C14_Step]_vars

C14_Witness ==
    /\ pc = "try"
    /\ i = 2
    /\ waits = << 1 >>
    /\ fileIdx = 2
    /\ files[2] = DocTwoNotes
    /\ pfIdx = 2
    /\ DataAt(data, << 1, 1 >>) = encode(RespFixed)
    /\ DataAt(data, << 1, 2 >>) = encode(NoteB)
    /\ DOMAIN outDir = { 1 }

(***************************************************************************)
(* C15: between the write of a document's output and the load of the next  *)
(* document main sleeps DELAY: the time main has slept is DELAY for every  *)
(* document written, less the one whose pause is still to come, a document *)
(* is loaded only when the pause of every written one is over, and the     *)
(* time slept grows only by DELAY in the step after the write; the only    *)
(* other waits are the backoff waits at the head of the retry loop.        *)
(***************************************************************************)
C15_Paced ==
    pauses = DELAY * (IF pc = "pace" THEN Cardinality(DOMAIN outDir) - 1
                      ELSE Cardinality(DOMAIN outDir))

C15_Step ==
    /\ fileIdx' # fileIdx =>
        /\ pauses = DELAY * fileIdx
        /\ DOMAIN outDir = 1..fileIdx
    /\ pauses' # pauses =>
        /\ pc = "pace"
        /\ pc' = "main"
        /\ fileIdx \in DOMAIN outDir
        /\ pauses' = pauses + DELAY
        /\ waits' = waits
    /\ Len(waits') > Len(waits) => pc = "loop" /\ pauses' = pauses

C15_InterDocumentPacing ==
    /\ []C15_Paced
    /\ [][C15_Step]_vars

C15_Witness ==
    /\ pc = "entry"
    /\ Len(files) = 3
    /\ fileIdx = 3
    /\ pauses = 2 * DELAY
    /\ DOMAIN outDir = { 1, 2 }

(***************************************************************************)
(* C16: every run ends, with an output written for every document or with  *)
(* the terminal failure of call_openai: every step lowers a measure that   *)
(* is ordered lexicographically over the documents left to load, the phase *)
(* of the document, its entries left, the elements left in the list and    *)
(* the steps left in the retry loop, so no run retries forever; and a run  *)
(* that goes on while a step is left reaches one of the two ends.          *)
(***************************************************************************)
Terminated ==
    \/ pc = "done" /\ DOMAIN outDir = 1..Len(files)
    \/ pc = "error"

Measure ==
    << Len(files) - fileIdx,
       CASE pc \in { "entry", "pf", "loop", "try" } -> 3
         [] pc = "pace" -> 2
         [] pc = "main" -> 1
         [] OTHER -> 0,
       IF pc \in { "entry", "pf", "loop", "try" }
       THEN EntryCount(data) + 1 - entryIdx ELSE 0,
       CASE pc = "entry" ->
                IF /\ entryIdx <= EntryCount(data)
                   /\ HasResource(data.entry[entryIdx])
                   /\ HasKey(data.entry[entryIdx].resource, "presentedForm")
                THEN Len(PfList(data, entryIdx)) + 1 ELSE 0
         [] pc \in { "pf", "loop", "try" } -> Len(PfList(data, entryIdx)) + 1 - pfIdx
         [] OTHER -> 0,
       CASE pc = "pf" -> 2 * Len(RETRY_DELAYS) + 3
         [] pc = "loop" -> 2 * (Len(RETRY_DELAYS) + 2 - i)
         [] pc = "try" -> 2 * (Len(RETRY_DELAYS) + 2 - i) - 1
         [] OTHER -> 0 >>

RECURSIVE LexLess(_, _)
LexLess(a, b) ==
    /\ Len(a) > 0
    /\ \/ a[1] < b[1]
       \/ a[1] = b[1] /\ LexLess(Tail(a), Tail(b))

C16_RunTermination ==
    /\ [](\A k \in 1..Len(Measure) : Measure[k] >= 0)
    /\ [][LexLess(Measure', Measure)]_vars
    /\ <>Terminated

C16_Witness ==
    /\ pc = "done"
    /\ Len(files) = 3
    /\ DOMAIN outDir = { 1, 2, 3 }
    /\ ~genFixed
    /\ returned = 2

(***************************************************************************)
(* C17                                                                     *)
(* Audit record matches the output: at the step that rewrites an           *)
(* attachment, one record is appended to the log; the text the new data    *)
(* token decodes to is the output of that record, which is the stripped    *)
(* response, and the prompt of that record is build_prompt of the text the *)
(* old data token decoded to and one of the CLINICIAN_STYLES.              *)
(***************************************************************************)
C17_Step ==
    (pc = "try" /\ pc' = "pf") =>
        LET rec == log'[Len(log')]
            pos == Pos
        IN  /\ Len(log') = Len(log) + 1
            /\ rec.output = strip(response')
            /\ decode(DataAt(data', pos)) = rec.output
            /\ \E k \in 1..Len(CLINICIAN_STYLES) :
                 rec.prompt = build_prompt(decode(DataAt(data, pos)),
                                           CLINICIAN_STYLES[k])

C17_AuditRecordMatchesOutput == [][C17_Step]_vars

C17_Witness ==
    /\ pc = "pf"
    /\ outcome = "text"
    /\ response = RespPadded
    /\ pfIdx = 2
    /\ files[fileIdx] = DocTwoNotes
    /\ log[Len(log)] = [prompt |-> build_prompt(NoteA, CLINICIAN_STYLES[2]),
                        output |-> RespFixed]
    /\ decode(DataAt(data, << entryIdx, 1 >>)) = RespFixed

(***************************************************************************)
(* C18                                                                     *)
(* Prompt fixed across retries: all through one call of call_openai the    *)
(* style is one of the CLINICIAN_STYLES and the prompt is build_prompt of   *)
(* the decoded text of the attachment and that style; no step inside the   *)
(* call changes the decoded text, the style or the prompt, so every        *)
(* attempt sends the same prompt.                                          *)
(***************************************************************************)
C18_Fixed ==
    InCall =>
        /\ \E k \in 1..Len(CLINICIAN_STYLES) : style = CLINICIAN_STYLES[k]
        /\ decoded = decoded_of[DataAt(data, Pos)]
        /\ decoded # Error
        /\ prompt = build_prompt(decoded, style)

C18_Step ==
    (InCall /\ InCall') =>
        /\ style' = style
        /\ decoded' = decoded
        /\ prompt' = prompt

C18_PromptFixedAcrossRetries == []C18_Fixed /\ [][C18_Step]_vars

C18_Witness ==
    /\ pc = "try"
    /\ i = 3
    /\ attempts = 2
    /\ style = CLINICIAN_STYLES[4]
    /\ prompt = build_prompt(NoteB, CLINICIAN_STYLES[4])

(***************************************************************************)
(* C19                                                                     *)
(* Ineligible elements are skipped: the step over a presentedForm element  *)
(* without data, the step over an entry without resource and the step of a *)
(* document without entry list make no call of call_openai, write no log   *)
(* record, raise no count and leave the document as it is; in the output   *)
(* such elements and entries are those of the input; and every document    *)
(* that process_file has finished, with or without rewrites, has its       *)
(* output file, which holds the document as it then is.                    *)
(***************************************************************************)
C19_Untouched ==
    /\ data' = data
    /\ count' = count
    /\ rewritten_count' = rewritten_count
    /\ replaced' = replaced
    /\ calls' = calls
    /\ log' = log

C19_Step ==
    /\ (AtForm /\ ~HasKey(PfList(data, entryIdx)[pfIdx], "data")) =>
            /\ C19_Untouched
            /\ pc' = "pf" /\ pfIdx' = pfIdx + 1
    /\ (/\ pc = "entry"
        /\ entryIdx <= EntryCount(data)
        /\ ~HasResource(data.entry[entryIdx])) =>
            /\ C19_Untouched
            /\ pc' = "entry" /\ entryIdx' = entryIdx + 1
    /\ (pc = "entry" /\ ~HasKey(data, "entry")) =>
            /\ C19_Untouched
            /\ data = files[fileIdx]
            /\ rewritten_count = 0
            /\ pc' = "pace"
            /\ outDir'[fileIdx] = files[fileIdx]

C19_Written ==
    /\ pc \in { "pace", "main", "done" } => DOMAIN outDir = 1..fileIdx
    /\ pc = "pace" =>
        /\ outDir[fileIdx] = data
        /\ \A e \in 1..EntryCount(data) :
             ~HasResource(files[fileIdx].entry[e]) =>
                 data.entry[e] = files[fileIdx].entry[e]
        /\ \A pos \in Visited(files[fileIdx]) :
             ~HasKey(PfList(files[fileIdx], pos[1])[pos[2]], "data") =>
                 PfList(data, pos[1])[pos[2]] = PfList(files[fileIdx], pos[1])[pos[2]]

C19_IneligibleSkipped == []C19_Written /\ [][C19_Step]_vars

C19_Witness ==
    /\ pc = "pace"
    /\ files = << DocOddities, DocNoEntry >>
    /\ fileIdx = 2
    /\ rewritten_count = 0
    /\ outDir[2] = DocNoEntry
    /\ outDir[1].entry[1] = [fullUrl |-> "urn:1"]
    /\ PfList(outDir[1], 3)[1] = AttNoData
    /\ calls = 1

====
